---- MODULE Spec2Model ----
(***************************************************************************)
(* Model of validar_y_limpiar (src/main.py), the validation-and-cleaning   *)
(* engine of the transcript validator.                                     *)
(*                                                                         *)
(* A text is a sequence of Unicode code points.  A run is a record         *)
(*   [text, bold, font_name, font_size]                                    *)
(* where bold is "True", "False" or "None", and font_name / font_size are  *)
(* optional values: None (the empty tuple) or Some(v) (a 1-tuple).         *)
(* font_size is the size in points.  A paragraph is the sequence of its    *)
(* runs, and its text is the concatenation of the run texts.  A document   *)
(* is a sequence of paragraphs.                                            *)
(***************************************************************************)
EXTENDS Integers, Sequences, FiniteSets

VARIABLES
    doc,               \* the document, mutated in place by the cleaning
    original,          \* the document as it was handed to validar_y_limpiar
    i,                 \* index of the paragraph loop (0-based, as enumerate)
    j,                 \* index of the cleaning loop over the runs (0-based)
    pc,                \* "validar", "limpiar" or "fin"
    errores,           \* the list of findings (linea, tipo, desc)
    especiales_count,  \* the removed-character total
    char_counter,      \* the removed-character histogram (a Counter)
    escritos,          \* the runs <<paragraph, run>> whose text was assigned
    lineas,            \* the finding lines written to the report
    resumen            \* the report's count of findings per category

vars == <<doc, original, i, j, pc, errores, especiales_count, char_counter,
          escritos, lineas, resumen>>

----------------------------------------------------------------------------
(* Bounds of the model *)

MaxRuns == 2

MaxParas == 3

----------------------------------------------------------------------------
(* Python values *)

None == <<>>

Some(v) == <<v>>

\* str.isspace / the class \s of a str pattern: the Unicode white space.
isspace(c) ==
    \/ c \in 9..13
    \/ c \in 28..32
    \/ c \in {133, 160, 5760}
    \/ c \in 8192..8202
    \/ c \in {8232, 8233, 8239, 8287, 12288}

\* The ranges <<first, last>> of the Unicode decimal digits (category Nd).
RANGOS_ND ==
    {<<48, 57>>, <<1632, 1641>>, <<1776, 1785>>, <<1984, 1993>>, <<2406, 2415>>,
     <<2534, 2543>>, <<2662, 2671>>, <<2790, 2799>>, <<2918, 2927>>, <<3046, 3055>>,
     <<3174, 3183>>, <<3302, 3311>>, <<3430, 3439>>, <<3558, 3567>>, <<3664, 3673>>,
     <<3792, 3801>>, <<3872, 3881>>, <<4160, 4169>>, <<4240, 4249>>, <<6112, 6121>>,
     <<6160, 6169>>, <<6470, 6479>>, <<6608, 6617>>, <<6784, 6793>>, <<6800, 6809>>,
     <<6992, 7001>>, <<7088, 7097>>, <<7232, 7241>>, <<7248, 7257>>, <<42528, 42537>>,
     <<43216, 43225>>, <<43264, 43273>>, <<43472, 43481>>, <<43504, 43513>>, <<43600, 43609>>,
     <<44016, 44025>>, <<65296, 65305>>, <<66720, 66729>>, <<68912, 68921>>, <<69734, 69743>>,
     <<69872, 69881>>, <<69942, 69951>>, <<70096, 70105>>, <<70384, 70393>>, <<70736, 70745>>,
     <<70864, 70873>>, <<71248, 71257>>, <<71360, 71369>>, <<71472, 71481>>, <<71904, 71913>>,
     <<72016, 72025>>, <<72784, 72793>>, <<73040, 73049>>, <<73120, 73129>>, <<92768, 92777>>,
     <<92864, 92873>>, <<93008, 93017>>, <<120782, 120831>>, <<123200, 123209>>, <<123632, 123641>>,
     <<125264, 125273>>, <<130032, 130041>>}

\* The code points the class \d of a str pattern matches.
DIGITOS == UNION {r[1]..r[2] : r \in RANGOS_ND}

\* The class \d of a str pattern: any Unicode decimal digit.
isdigit(c) == c \in DIGITOS

\* The simple lowercase mappings of Unicode, as <<first, last, step, delta>>:
\* the code points first, first + step, ..., last map to themselves + delta.
RANGOS_LOWER ==
    {<<65, 90, 1, 32>>, <<192, 214, 1, 32>>, <<216, 222, 1, 32>>,
     <<256, 302, 2, 1>>, <<306, 310, 2, 1>>, <<313, 327, 2, 1>>,
     <<330, 374, 2, 1>>, <<376, 376, 1, -121>>, <<377, 381, 2, 1>>,
     <<385, 385, 1, 210>>, <<386, 388, 2, 1>>, <<390, 390, 1, 206>>,
     <<391, 391, 1, 1>>, <<393, 394, 1, 205>>, <<395, 395, 1, 1>>,
     <<398, 398, 1, 79>>, <<399, 399, 1, 202>>, <<400, 400, 1, 203>>,
     <<401, 401, 1, 1>>, <<403, 403, 1, 205>>, <<404, 404, 1, 207>>,
     <<406, 406, 1, 211>>, <<407, 407, 1, 209>>, <<408, 408, 1, 1>>,
     <<412, 412, 1, 211>>, <<413, 413, 1, 213>>, <<415, 415, 1, 214>>,
     <<416, 420, 2, 1>>, <<422, 422, 1, 218>>, <<423, 423, 1, 1>>,
     <<425, 425, 1, 218>>, <<428, 428, 1, 1>>, <<430, 430, 1, 218>>,
     <<431, 431, 1, 1>>, <<433, 434, 1, 217>>, <<435, 437, 2, 1>>,
     <<439, 439, 1, 219>>, <<440, 440, 1, 1>>, <<444, 444, 1, 1>>,
     <<452, 452, 1, 2>>, <<453, 453, 1, 1>>, <<455, 455, 1, 2>>,
     <<456, 456, 1, 1>>, <<458, 458, 1, 2>>, <<459, 475, 2, 1>>,
     <<478, 494, 2, 1>>, <<497, 497, 1, 2>>, <<498, 500, 2, 1>>,
     <<502, 502, 1, -97>>, <<503, 503, 1, -56>>, <<504, 542, 2, 1>>,
     <<544, 544, 1, -130>>, <<546, 562, 2, 1>>, <<570, 570, 1, 10795>>,
     <<571, 571, 1, 1>>, <<573, 573, 1, -163>>, <<574, 574, 1, 10792>>,
     <<577, 577, 1, 1>>, <<579, 579, 1, -195>>, <<580, 580, 1, 69>>,
     <<581, 581, 1, 71>>, <<582, 590, 2, 1>>, <<880, 882, 2, 1>>,
     <<886, 886, 1, 1>>, <<895, 895, 1, 116>>, <<902, 902, 1, 38>>,
     <<904, 906, 1, 37>>, <<908, 908, 1, 64>>, <<910, 911, 1, 63>>,
     <<913, 929, 1, 32>>, <<931, 939, 1, 32>>, <<975, 975, 1, 8>>,
     <<984, 1006, 2, 1>>, <<1012, 1012, 1, -60>>, <<1015, 1015, 1, 1>>,
     <<1017, 1017, 1, -7>>, <<1018, 1018, 1, 1>>, <<1021, 1023, 1, -130>>,
     <<1024, 1039, 1, 80>>, <<1040, 1071, 1, 32>>, <<1120, 1152, 2, 1>>,
     <<1162, 1214, 2, 1>>, <<1216, 1216, 1, 15>>, <<1217, 1229, 2, 1>>,
     <<1232, 1326, 2, 1>>, <<1329, 1366, 1, 48>>, <<4256, 4293, 1, 7264>>,
     <<4295, 4295, 1, 7264>>, <<4301, 4301, 1, 7264>>, <<5024, 5103, 1, 38864>>,
     <<5104, 5109, 1, 8>>, <<7312, 7354, 1, -3008>>, <<7357, 7359, 1, -3008>>,
     <<7680, 7828, 2, 1>>, <<7838, 7838, 1, -7615>>, <<7840, 7934, 2, 1>>,
     <<7944, 7951, 1, -8>>, <<7960, 7965, 1, -8>>, <<7976, 7983, 1, -8>>,
     <<7992, 7999, 1, -8>>, <<8008, 8013, 1, -8>>, <<8025, 8031, 2, -8>>,
     <<8040, 8047, 1, -8>>, <<8072, 8079, 1, -8>>, <<8088, 8095, 1, -8>>,
     <<8104, 8111, 1, -8>>, <<8120, 8121, 1, -8>>, <<8122, 8123, 1, -74>>,
     <<8124, 8124, 1, -9>>, <<8136, 8139, 1, -86>>, <<8140, 8140, 1, -9>>,
     <<8152, 8153, 1, -8>>, <<8154, 8155, 1, -100>>, <<8168, 8169, 1, -8>>,
     <<8170, 8171, 1, -112>>, <<8172, 8172, 1, -7>>, <<8184, 8185, 1, -128>>,
     <<8186, 8187, 1, -126>>, <<8188, 8188, 1, -9>>, <<8486, 8486, 1, -7517>>,
     <<8490, 8490, 1, -8383>>, <<8491, 8491, 1, -8262>>, <<8498, 8498, 1, 28>>,
     <<8544, 8559, 1, 16>>, <<8579, 8579, 1, 1>>, <<9398, 9423, 1, 26>>,
     <<11264, 11311, 1, 48>>, <<11360, 11360, 1, 1>>, <<11362, 11362, 1, -10743>>,
     <<11363, 11363, 1, -3814>>, <<11364, 11364, 1, -10727>>, <<11367, 11371, 2, 1>>,
     <<11373, 11373, 1, -10780>>, <<11374, 11374, 1, -10749>>, <<11375, 11375, 1, -10783>>,
     <<11376, 11376, 1, -10782>>, <<11378, 11378, 1, 1>>, <<11381, 11381, 1, 1>>,
     <<11390, 11391, 1, -10815>>, <<11392, 11490, 2, 1>>, <<11499, 11501, 2, 1>>,
     <<11506, 11506, 1, 1>>, <<42560, 42604, 2, 1>>, <<42624, 42650, 2, 1>>,
     <<42786, 42798, 2, 1>>, <<42802, 42862, 2, 1>>, <<42873, 42875, 2, 1>>,
     <<42877, 42877, 1, -35332>>, <<42878, 42886, 2, 1>>, <<42891, 42891, 1, 1>>,
     <<42893, 42893, 1, -42280>>, <<42896, 42898, 2, 1>>, <<42902, 42920, 2, 1>>,
     <<42922, 42922, 1, -42308>>, <<42923, 42923, 1, -42319>>, <<42924, 42924, 1, -42315>>,
     <<42925, 42925, 1, -42305>>, <<42926, 42926, 1, -42308>>, <<42928, 42928, 1, -42258>>,
     <<42929, 42929, 1, -42282>>, <<42930, 42930, 1, -42261>>, <<42931, 42931, 1, 928>>,
     <<42932, 42946, 2, 1>>, <<42948, 42948, 1, -48>>, <<42949, 42949, 1, -42307>>,
     <<42950, 42950, 1, -35384>>, <<42951, 42953, 2, 1>>, <<42960, 42960, 1, 1>>,
     <<42966, 42968, 2, 1>>, <<42997, 42997, 1, 1>>, <<65313, 65338, 1, 32>>,
     <<66560, 66599, 1, 40>>, <<66736, 66771, 1, 40>>, <<66928, 66938, 1, 39>>,
     <<66940, 66954, 1, 39>>, <<66956, 66962, 1, 39>>, <<66964, 66965, 1, 39>>,
     <<68736, 68786, 1, 64>>, <<71840, 71871, 1, 32>>, <<93760, 93791, 1, 32>>,
     <<125184, 125217, 1, 34>>}

\* The code points with a simple lowercase mapping, each with its image.
TABLA_LOWER ==
    [c \in UNION {{x \in r[1]..r[2] : (x - r[1]) % r[3] = 0} :
                    r \in RANGOS_LOWER} |->
        c + (CHOOSE r \in RANGOS_LOWER :
                r[1] <= c /\ c <= r[2] /\ (c - r[1]) % r[3] = 0)[4]]

\* str.lower() of the one-character string c, as a text: U+0130 gives two
\* code points, and a capital sigma alone gives U+03C3.
lower_char(c) ==
    IF c = 304 THEN <<105, 775>>
    ELSE IF c \in DOMAIN TABLA_LOWER THEN <<TABLA_LOWER[c]>>
    ELSE <<c>>

\* The ranges of the code points str.lower() skips around a capital sigma
\* (case-ignorable).
RANGOS_CASE_IGNORABLE ==
    {<<39, 39>>, <<46, 46>>, <<58, 58>>, <<94, 94>>, <<96, 96>>,
     <<168, 168>>, <<173, 173>>, <<175, 175>>, <<180, 180>>, <<183, 184>>,
     <<688, 879>>, <<884, 885>>, <<890, 890>>, <<900, 901>>, <<903, 903>>,
     <<1155, 1161>>, <<1369, 1369>>, <<1375, 1375>>, <<1425, 1469>>, <<1471, 1471>>,
     <<1473, 1474>>, <<1476, 1477>>, <<1479, 1479>>, <<1524, 1524>>, <<1536, 1541>>,
     <<1552, 1562>>, <<1564, 1564>>, <<1600, 1600>>, <<1611, 1631>>, <<1648, 1648>>,
     <<1750, 1757>>, <<1759, 1768>>, <<1770, 1773>>, <<1807, 1807>>, <<1809, 1809>>,
     <<1840, 1866>>, <<1958, 1968>>, <<2027, 2037>>, <<2042, 2042>>, <<2045, 2045>>,
     <<2070, 2093>>, <<2137, 2139>>, <<2184, 2184>>, <<2192, 2193>>, <<2200, 2207>>,
     <<2249, 2306>>, <<2362, 2362>>, <<2364, 2364>>, <<2369, 2376>>, <<2381, 2381>>,
     <<2385, 2391>>, <<2402, 2403>>, <<2417, 2417>>, <<2433, 2433>>, <<2492, 2492>>,
     <<2497, 2500>>, <<2509, 2509>>, <<2530, 2531>>, <<2558, 2558>>, <<2561, 2562>>,
     <<2620, 2620>>, <<2625, 2626>>, <<2631, 2632>>, <<2635, 2637>>, <<2641, 2641>>,
     <<2672, 2673>>, <<2677, 2677>>, <<2689, 2690>>, <<2748, 2748>>, <<2753, 2757>>,
     <<2759, 2760>>, <<2765, 2765>>, <<2786, 2787>>, <<2810, 2815>>, <<2817, 2817>>,
     <<2876, 2876>>, <<2879, 2879>>, <<2881, 2884>>, <<2893, 2893>>, <<2901, 2902>>,
     <<2914, 2915>>, <<2946, 2946>>, <<3008, 3008>>, <<3021, 3021>>, <<3072, 3072>>,
     <<3076, 3076>>, <<3132, 3132>>, <<3134, 3136>>, <<3142, 3144>>, <<3146, 3149>>,
     <<3157, 3158>>, <<3170, 3171>>, <<3201, 3201>>, <<3260, 3260>>, <<3263, 3263>>,
     <<3270, 3270>>, <<3276, 3277>>, <<3298, 3299>>, <<3328, 3329>>, <<3387, 3388>>,
     <<3393, 3396>>, <<3405, 3405>>, <<3426, 3427>>, <<3457, 3457>>, <<3530, 3530>>,
     <<3538, 3540>>, <<3542, 3542>>, <<3633, 3633>>, <<3636, 3642>>, <<3654, 3662>>,
     <<3761, 3761>>, <<3764, 3772>>, <<3782, 3782>>, <<3784, 3789>>, <<3864, 3865>>,
     <<3893, 3893>>, <<3895, 3895>>, <<3897, 3897>>, <<3953, 3966>>, <<3968, 3972>>,
     <<3974, 3975>>, <<3981, 3991>>, <<3993, 4028>>, <<4038, 4038>>, <<4141, 4144>>,
     <<4146, 4151>>, <<4153, 4154>>, <<4157, 4158>>, <<4184, 4185>>, <<4190, 4192>>,
     <<4209, 4212>>, <<4226, 4226>>, <<4229, 4230>>, <<4237, 4237>>, <<4253, 4253>>,
     <<4348, 4348>>, <<4957, 4959>>, <<5906, 5908>>, <<5938, 5939>>, <<5970, 5971>>,
     <<6002, 6003>>, <<6068, 6069>>, <<6071, 6077>>, <<6086, 6086>>, <<6089, 6099>>,
     <<6103, 6103>>, <<6109, 6109>>, <<6155, 6159>>, <<6211, 6211>>, <<6277, 6278>>,
     <<6313, 6313>>, <<6432, 6434>>, <<6439, 6440>>, <<6450, 6450>>, <<6457, 6459>>,
     <<6679, 6680>>, <<6683, 6683>>, <<6742, 6742>>, <<6744, 6750>>, <<6752, 6752>>,
     <<6754, 6754>>, <<6757, 6764>>, <<6771, 6780>>, <<6783, 6783>>, <<6823, 6823>>,
     <<6832, 6862>>, <<6912, 6915>>, <<6964, 6964>>, <<6966, 6970>>, <<6972, 6972>>,
     <<6978, 6978>>, <<7019, 7027>>, <<7040, 7041>>, <<7074, 7077>>, <<7080, 7081>>,
     <<7083, 7085>>, <<7142, 7142>>, <<7144, 7145>>, <<7149, 7149>>, <<7151, 7153>>,
     <<7212, 7219>>, <<7222, 7223>>, <<7288, 7293>>, <<7376, 7378>>, <<7380, 7392>>,
     <<7394, 7400>>, <<7405, 7405>>, <<7412, 7412>>, <<7416, 7417>>, <<7468, 7530>>,
     <<7544, 7544>>, <<7579, 7679>>, <<8125, 8125>>, <<8127, 8129>>, <<8141, 8143>>,
     <<8157, 8159>>, <<8173, 8175>>, <<8189, 8190>>, <<8203, 8207>>, <<8216, 8217>>,
     <<8228, 8228>>, <<8231, 8231>>, <<8234, 8238>>, <<8288, 8292>>, <<8294, 8303>>,
     <<8305, 8305>>, <<8319, 8319>>, <<8336, 8348>>, <<8400, 8432>>, <<11388, 11389>>,
     <<11503, 11505>>, <<11631, 11631>>, <<11647, 11647>>, <<11744, 11775>>, <<11823, 11823>>,
     <<12293, 12293>>, <<12330, 12333>>, <<12337, 12341>>, <<12347, 12347>>, <<12441, 12446>>,
     <<12540, 12542>>, <<40981, 40981>>, <<42232, 42237>>, <<42508, 42508>>, <<42607, 42610>>,
     <<42612, 42621>>, <<42623, 42623>>, <<42652, 42655>>, <<42736, 42737>>, <<42752, 42785>>,
     <<42864, 42864>>, <<42888, 42890>>, <<42994, 42996>>, <<43000, 43001>>, <<43010, 43010>>,
     <<43014, 43014>>, <<43019, 43019>>, <<43045, 43046>>, <<43052, 43052>>, <<43204, 43205>>,
     <<43232, 43249>>, <<43263, 43263>>, <<43302, 43309>>, <<43335, 43345>>, <<43392, 43394>>,
     <<43443, 43443>>, <<43446, 43449>>, <<43452, 43453>>, <<43471, 43471>>, <<43493, 43494>>,
     <<43561, 43566>>, <<43569, 43570>>, <<43573, 43574>>, <<43587, 43587>>, <<43596, 43596>>,
     <<43632, 43632>>, <<43644, 43644>>, <<43696, 43696>>, <<43698, 43700>>, <<43703, 43704>>,
     <<43710, 43711>>, <<43713, 43713>>, <<43741, 43741>>, <<43756, 43757>>, <<43763, 43764>>,
     <<43766, 43766>>, <<43867, 43871>>, <<43881, 43883>>, <<44005, 44005>>, <<44008, 44008>>,
     <<44013, 44013>>, <<64286, 64286>>, <<64434, 64450>>, <<65024, 65039>>, <<65043, 65043>>,
     <<65056, 65071>>, <<65106, 65106>>, <<65109, 65109>>, <<65279, 65279>>, <<65287, 65287>>,
     <<65294, 65294>>, <<65306, 65306>>, <<65342, 65342>>, <<65344, 65344>>, <<65392, 65392>>,
     <<65438, 65439>>, <<65507, 65507>>, <<65529, 65531>>, <<66045, 66045>>, <<66272, 66272>>,
     <<66422, 66426>>, <<67456, 67461>>, <<67463, 67504>>, <<67506, 67514>>, <<68097, 68099>>,
     <<68101, 68102>>, <<68108, 68111>>, <<68152, 68154>>, <<68159, 68159>>, <<68325, 68326>>,
     <<68900, 68903>>, <<69291, 69292>>, <<69446, 69456>>, <<69506, 69509>>, <<69633, 69633>>,
     <<69688, 69702>>, <<69744, 69744>>, <<69747, 69748>>, <<69759, 69761>>, <<69811, 69814>>,
     <<69817, 69818>>, <<69821, 69821>>, <<69826, 69826>>, <<69837, 69837>>, <<69888, 69890>>,
     <<69927, 69931>>, <<69933, 69940>>, <<70003, 70003>>, <<70016, 70017>>, <<70070, 70078>>,
     <<70089, 70092>>, <<70095, 70095>>, <<70191, 70193>>, <<70196, 70196>>, <<70198, 70199>>,
     <<70206, 70206>>, <<70367, 70367>>, <<70371, 70378>>, <<70400, 70401>>, <<70459, 70460>>,
     <<70464, 70464>>, <<70502, 70508>>, <<70512, 70516>>, <<70712, 70719>>, <<70722, 70724>>,
     <<70726, 70726>>, <<70750, 70750>>, <<70835, 70840>>, <<70842, 70842>>, <<70847, 70848>>,
     <<70850, 70851>>, <<71090, 71093>>, <<71100, 71101>>, <<71103, 71104>>, <<71132, 71133>>,
     <<71219, 71226>>, <<71229, 71229>>, <<71231, 71232>>, <<71339, 71339>>, <<71341, 71341>>,
     <<71344, 71349>>, <<71351, 71351>>, <<71453, 71455>>, <<71458, 71461>>, <<71463, 71467>>,
     <<71727, 71735>>, <<71737, 71738>>, <<71995, 71996>>, <<71998, 71998>>, <<72003, 72003>>,
     <<72148, 72151>>, <<72154, 72155>>, <<72160, 72160>>, <<72193, 72202>>, <<72243, 72248>>,
     <<72251, 72254>>, <<72263, 72263>>, <<72273, 72278>>, <<72281, 72283>>, <<72330, 72342>>,
     <<72344, 72345>>, <<72752, 72758>>, <<72760, 72765>>, <<72767, 72767>>, <<72850, 72871>>,
     <<72874, 72880>>, <<72882, 72883>>, <<72885, 72886>>, <<73009, 73014>>, <<73018, 73018>>,
     <<73020, 73021>>, <<73023, 73029>>, <<73031, 73031>>, <<73104, 73105>>, <<73109, 73109>>,
     <<73111, 73111>>, <<73459, 73460>>, <<78896, 78904>>, <<92912, 92916>>, <<92976, 92982>>,
     <<92992, 92995>>, <<94031, 94031>>, <<94095, 94111>>, <<94176, 94177>>, <<94179, 94180>>,
     <<110576, 110579>>, <<110581, 110587>>, <<110589, 110590>>, <<113821, 113822>>, <<113824, 113827>>,
     <<118528, 118573>>, <<118576, 118598>>, <<119143, 119145>>, <<119155, 119170>>, <<119173, 119179>>,
     <<119210, 119213>>, <<119362, 119364>>, <<121344, 121398>>, <<121403, 121452>>, <<121461, 121461>>,
     <<121476, 121476>>, <<121499, 121503>>, <<121505, 121519>>, <<122880, 122886>>, <<122888, 122904>>,
     <<122907, 122913>>, <<122915, 122916>>, <<122918, 122922>>, <<123184, 123197>>, <<123566, 123566>>,
     <<123628, 123631>>, <<125136, 125142>>, <<125252, 125259>>, <<127995, 127999>>, <<917505, 917505>>,
     <<917536, 917631>>, <<917760, 917999>>}

\* The ranges of the cased code points that are not case-ignorable.
RANGOS_CASED ==
    {<<65, 90>>, <<97, 122>>, <<170, 170>>, <<181, 181>>, <<186, 186>>,
     <<192, 214>>, <<216, 246>>, <<248, 442>>, <<444, 447>>, <<452, 659>>,
     <<661, 687>>, <<880, 883>>, <<886, 887>>, <<891, 893>>, <<895, 895>>,
     <<902, 902>>, <<904, 906>>, <<908, 908>>, <<910, 929>>, <<931, 1013>>,
     <<1015, 1153>>, <<1162, 1327>>, <<1329, 1366>>, <<1376, 1416>>, <<4256, 4293>>,
     <<4295, 4295>>, <<4301, 4301>>, <<4304, 4346>>, <<4349, 4351>>, <<5024, 5109>>,
     <<5112, 5117>>, <<7296, 7304>>, <<7312, 7354>>, <<7357, 7359>>, <<7424, 7467>>,
     <<7531, 7543>>, <<7545, 7578>>, <<7680, 7957>>, <<7960, 7965>>, <<7968, 8005>>,
     <<8008, 8013>>, <<8016, 8023>>, <<8025, 8025>>, <<8027, 8027>>, <<8029, 8029>>,
     <<8031, 8061>>, <<8064, 8116>>, <<8118, 8124>>, <<8126, 8126>>, <<8130, 8132>>,
     <<8134, 8140>>, <<8144, 8147>>, <<8150, 8155>>, <<8160, 8172>>, <<8178, 8180>>,
     <<8182, 8188>>, <<8450, 8450>>, <<8455, 8455>>, <<8458, 8467>>, <<8469, 8469>>,
     <<8473, 8477>>, <<8484, 8484>>, <<8486, 8486>>, <<8488, 8488>>, <<8490, 8493>>,
     <<8495, 8500>>, <<8505, 8505>>, <<8508, 8511>>, <<8517, 8521>>, <<8526, 8526>>,
     <<8544, 8575>>, <<8579, 8580>>, <<9398, 9449>>, <<11264, 11387>>, <<11390, 11492>>,
     <<11499, 11502>>, <<11506, 11507>>, <<11520, 11557>>, <<11559, 11559>>, <<11565, 11565>>,
     <<42560, 42605>>, <<42624, 42651>>, <<42786, 42863>>, <<42865, 42887>>, <<42891, 42894>>,
     <<42896, 42954>>, <<42960, 42961>>, <<42963, 42963>>, <<42965, 42969>>, <<42997, 42998>>,
     <<43002, 43002>>, <<43824, 43866>>, <<43872, 43880>>, <<43888, 43967>>, <<64256, 64262>>,
     <<64275, 64279>>, <<65313, 65338>>, <<65345, 65370>>, <<66560, 66639>>, <<66736, 66771>>,
     <<66776, 66811>>, <<66928, 66938>>, <<66940, 66954>>, <<66956, 66962>>, <<66964, 66965>>,
     <<66967, 66977>>, <<66979, 66993>>, <<66995, 67001>>, <<67003, 67004>>, <<68736, 68786>>,
     <<68800, 68850>>, <<71840, 71903>>, <<93760, 93823>>, <<119808, 119892>>, <<119894, 119964>>,
     <<119966, 119967>>, <<119970, 119970>>, <<119973, 119974>>, <<119977, 119980>>, <<119982, 119993>>,
     <<119995, 119995>>, <<119997, 120003>>, <<120005, 120069>>, <<120071, 120074>>, <<120077, 120084>>,
     <<120086, 120092>>, <<120094, 120121>>, <<120123, 120126>>, <<120128, 120132>>, <<120134, 120134>>,
     <<120138, 120144>>, <<120146, 120485>>, <<120488, 120512>>, <<120514, 120538>>, <<120540, 120570>>,
     <<120572, 120596>>, <<120598, 120628>>, <<120630, 120654>>, <<120656, 120686>>, <<120688, 120712>>,
     <<120714, 120744>>, <<120746, 120770>>, <<120772, 120779>>, <<122624, 122633>>, <<122635, 122654>>,
     <<125184, 125251>>, <<127280, 127305>>, <<127312, 127337>>, <<127344, 127369>>}

CASE_IGNORABLE == UNION {r[1]..r[2] : r \in RANGOS_CASE_IGNORABLE}

CASED == UNION {r[1]..r[2] : r \in RANGOS_CASED}

\* The capital sigma at position k of s is final: going back over the
\* case-ignorable characters there is a cased one, and going forward there is
\* none.
final_sigma(s, k) ==
    LET antes == {m \in 1..(k - 1) : s[m] \notin CASE_IGNORABLE}
        despues == {m \in (k + 1)..Len(s) : s[m] \notin CASE_IGNORABLE}
    IN  /\ antes # {}
        /\ s[CHOOSE a \in antes : \A b \in antes : b <= a] \in CASED
        /\ \/ despues = {}
           \/ s[CHOOSE a \in despues : \A b \in despues : a <= b] \notin CASED

RECURSIVE lower_desde(_, _)
\* The lowercase of the characters k, k+1, ... of s.
lower_desde(s, k) ==
    IF k > Len(s) THEN <<>>
    ELSE (IF s[k] = 931
          THEN <<IF final_sigma(s, k) THEN 962 ELSE 963>>
          ELSE lower_char(s[k]))
         \o lower_desde(s, k + 1)

\* str.lower()
lower(s) == lower_desde(s, 1)

RECURSIVE lstrip(_)
\* The text without its leading white space.
lstrip(s) ==
    IF s # <<>> /\ isspace(Head(s)) THEN lstrip(Tail(s)) ELSE s

RECURSIVE rstrip(_)
\* The text without its trailing white space.
rstrip(s) ==
    IF s # <<>> /\ isspace(s[Len(s)])
    THEN rstrip(SubSeq(s, 1, Len(s) - 1))
    ELSE s

\* str.strip(): leading and trailing white space removed.
strip(s) == rstrip(lstrip(s))

\* str.startswith
startswith(s, p) == Len(p) <= Len(s) /\ SubSeq(s, 1, Len(p)) = p

\* The operator `in` on two strings: p is a substring of s.
contiene(s, p) ==
    \E k \in 1..(Len(s) - Len(p) + 1) : SubSeq(s, k, k + Len(p) - 1) = p

\* Truth value of run.bold (True, False or None).
bold_true(run) == run.bold = "True"

----------------------------------------------------------------------------
(* Constants of the program *)

ENTREVISTADOR == <<69, 78, 84, 82, 69, 86, 73, 83, 84, 65, 68, 79, 82, 58>>

ENTREVISTADORA ==
    <<69, 78, 84, 82, 69, 86, 73, 83, 84, 65, 68, 79, 82, 65, 58>>

ENTREVISTADO == <<69, 78, 84, 82, 69, 86, 73, 83, 84, 65, 68, 79, 58>>

ENTREVISTADA == <<69, 78, 84, 82, 69, 86, 73, 83, 84, 65, 68, 65, 58>>

ETIQUETAS_VALIDAS ==
    <<ENTREVISTADOR, ENTREVISTADORA, ENTREVISTADO, ENTREVISTADA>>

\* "speaker", "usuario", "xxx", "arial"
SPEAKER == <<115, 112, 101, 97, 107, 101, 114>>

USUARIO == <<117, 115, 117, 97, 114, 105, 111>>

XXX == <<120, 120, 120>>

ARIAL == <<97, 114, 105, 97, 108>>

\* REGEX_PERMITIDOS = [^A-Za-zÁÉÍÓÚáéíóúÑñ0-9\s\.,:\?¿] matches the code
\* point c: c is a character the cleaning removes.
REGEX_PERMITIDOS(c) ==
    ~ \/ c \in 65..90
      \/ c \in 97..122
      \/ c \in {193, 201, 205, 211, 218, 225, 233, 237, 243, 250, 209, 241}
      \/ c \in 48..57
      \/ isspace(c)
      \/ c \in {46, 44, 58, 63, 191}

----------------------------------------------------------------------------
(* The text of a paragraph and the checks on it *)

RECURSIVE para_text(_)
\* Paragraph.text: the concatenation of the texts of the paragraph's runs.
para_text(runs) ==
    IF runs = <<>> THEN <<>> ELSE Head(runs).text \o para_text(Tail(runs))

\* Variant: a timestamp needs two digits before the colon.
es_timestamp_dos_digitos(texto) ==
    /\ Len(texto) = 5
    /\ texto[3] = 58
    /\ \A k \in {1, 2, 4, 5} : isdigit(texto[k])

\* re.fullmatch(r"\d{1,2}:\d{2}", texto)
es_timestamp(texto) ==
    /\ Len(texto) \in {4, 5}
    /\ texto[Len(texto) - 2] = 58
    /\ \A k \in (1..Len(texto)) \ {Len(texto) - 2} : isdigit(texto[k])

\* The class [A-ZÁÉÍÓÚÑ]
mayuscula(c) == c \in 65..90 \/ c \in {193, 201, 205, 211, 218, 209}

\* re.match(r"^([A-ZÁÉÍÓÚÑ]+:)", texto): Some(group 1) or None.
match_etiqueta(texto) ==
    LET n == Cardinality({k \in 1..Len(texto) :
                            \A m \in 1..k : mayuscula(texto[m])})
    IN  IF n >= 1 /\ n < Len(texto) /\ texto[n + 1] = 58
        THEN Some(SubSeq(texto, 1, n + 1))
        ELSE None

\* etiqueta in ETIQUETAS_VALIDAS
etiqueta_valida(etiqueta) ==
    \E k \in 1..Len(ETIQUETAS_VALIDAS) : ETIQUETAS_VALIDAS[k] = etiqueta

\* Variant: the line number is the 0-based index.
linea_desde_cero(idx) == idx

\* The line number i+1 of the paragraph at index idx.
linea(idx) == idx + 1

\* A finding (linea, tipo, desc); the message desc is the pair of its
\* template and of the value formatted into it.
Error(idx, tipo, plantilla, valor) == <<linea(idx), tipo, <<plantilla, valor>>>>

\* Variant: the three words are tested with if / elif / elif.
errores_palabras_elif(idx, texto) ==
    LET texto_norm == lower(texto)
    IN  IF contiene(texto_norm, SPEAKER)
        THEN <<Error(idx, "Etiqueta inválida", "speaker", texto)>>
        ELSE IF contiene(texto_norm, USUARIO)
        THEN <<Error(idx, "Etiqueta inválida", "usuario", <<>>)>>
        ELSE IF contiene(texto_norm, XXX)
        THEN <<Error(idx, "Etiqueta inválida", "xxx", texto)>>
        ELSE <<>>

\* The forbidden-word checks.
errores_palabras(idx, texto) ==
    LET texto_norm == lower(texto)
    IN  (IF contiene(texto_norm, SPEAKER)
         THEN <<Error(idx, "Etiqueta inválida", "speaker", texto)>>
         ELSE <<>>)
        \o
        (IF contiene(texto_norm, USUARIO)
         THEN <<Error(idx, "Etiqueta inválida", "usuario", <<>>)>>
         ELSE <<>>)
        \o
        (IF contiene(texto_norm, XXX)
         THEN <<Error(idx, "Etiqueta inválida", "xxx", texto)>>
         ELSE <<>>)

\* Variant: the test is inverted.
etiqueta_no_sola(texto, etiqueta) == texto # etiqueta

\* texto == etiqueta
etiqueta_sola(texto, etiqueta) == texto = etiqueta

\* Variant: every valid label is held to the bold rules.
es_cualquier_etiqueta(etiqueta) == etiqueta_valida(etiqueta)

\* etiqueta in ["ENTREVISTADOR:", "ENTREVISTADORA:"]
es_entrevistador(etiqueta) == etiqueta \in {ENTREVISTADOR, ENTREVISTADORA}

\* any(run.text.strip().startswith(etiqueta) and run.bold for run in para.runs)
encabezado_ok(runs, etiqueta) ==
    \E k \in 1..Len(runs) :
        startswith(strip(runs[k].text), etiqueta) /\ bold_true(runs[k])

\* all(run.bold or not run.text.strip() for run in para.runs)
all_bold(runs) ==
    \A k \in 1..Len(runs) : bold_true(runs[k]) \/ strip(runs[k].text) = <<>>

\* The label-prefix check and the bold checks of an interviewer line.
errores_etiqueta(idx, texto, runs) ==
    LET match == match_etiqueta(texto)
    IN  IF match = None THEN <<>>
        ELSE LET etiqueta == match[1]
             IN  IF ~etiqueta_valida(etiqueta)
                 THEN <<Error(idx, "Etiqueta inválida", "etiqueta", etiqueta)>>
                 ELSE (IF etiqueta_sola(texto, etiqueta)
                       THEN <<Error(idx, "Formato incorrecto", "sola", etiqueta)>>
                       ELSE <<>>)
                      \o
                      (IF es_entrevistador(etiqueta) /\ ~encabezado_ok(runs, etiqueta)
                       THEN <<Error(idx, "Encabezado sin negrita", "encabezado",
                                    etiqueta)>>
                       ELSE <<>>)
                      \o
                      (IF es_entrevistador(etiqueta) /\ ~all_bold(runs)
                       THEN <<Error(idx, "Formato en negrita", "negrita",
                                    etiqueta)>>
                       ELSE <<>>)

\* tamano = run.font.size.pt if run.font.size else None
tamano_de(run) ==
    IF run.font_size # None /\ run.font_size[1] # 0 THEN run.font_size ELSE None

\* Variant: the font name is compared without lower().
fuente_incorrecta_sin_lower(fuente) ==
    fuente # None /\ fuente[1] # <<>> /\ fuente[1] # ARIAL

\* fuente and fuente.lower() != "arial"
fuente_incorrecta(fuente) ==
    fuente # None /\ fuente[1] # <<>> /\ lower(fuente[1]) # ARIAL

\* tamano and tamano != 12
tamano_incorrecto(tamano) ==
    tamano # None /\ tamano[1] # 0 /\ tamano[1] # 12

RECURSIVE errores_fuente_sin_break(_, _)
\* Variant: no break, every run is examined for both checks.
errores_fuente_sin_break(idx, runs) ==
    IF runs = <<>> THEN <<>>
    ELSE LET fuente == Head(runs).font_name
             tamano == tamano_de(Head(runs))
         IN  (IF fuente_incorrecta(fuente)
              THEN <<Error(idx, "Fuente incorrecta", "fuente", fuente[1])>>
              ELSE <<>>)
             \o
             (IF tamano_incorrecto(tamano)
              THEN <<Error(idx, "Tamaño incorrecto", "tamano", tamano)>>
              ELSE <<>>)
             \o errores_fuente_sin_break(idx, Tail(runs))

RECURSIVE errores_fuente(_, _)
\* The font/size loop over the runs, left by break at its first finding.
errores_fuente(idx, runs) ==
    IF runs = <<>> THEN <<>>
    ELSE LET fuente == Head(runs).font_name
             tamano == tamano_de(Head(runs))
         IN  IF fuente_incorrecta(fuente)
             THEN <<Error(idx, "Fuente incorrecta", "fuente", fuente[1])>>
             ELSE IF tamano_incorrecto(tamano)
             THEN <<Error(idx, "Tamaño incorrecto", "tamano", tamano)>>
             ELSE errores_fuente(idx, Tail(runs))

----------------------------------------------------------------------------
(* The cleaning of a run *)

\* re.findall(REGEX_PERMITIDOS, run.text)
findall(text) == SelectSeq(text, REGEX_PERMITIDOS)

\* re.sub(REGEX_PERMITIDOS, "", run.text)
sub(text) == SelectSeq(text, LAMBDA c : ~REGEX_PERMITIDOS(c))

\* The number of occurrences of c in the sequence s.
ocurrencias(s, c) == Cardinality({k \in 1..Len(s) : s[k] = c})

\* Variant: each character found counts once per run.
counter_update_una_vez(counter, encontrados) ==
    LET nuevos == {encontrados[k] : k \in 1..Len(encontrados)}
    IN  [c \in DOMAIN counter \cup nuevos |->
            (IF c \in DOMAIN counter THEN counter[c] ELSE 0)
            + (IF c \in nuevos THEN 1 ELSE 0)]

\* Counter.update(encontrados)
counter_update(counter, encontrados) ==
    LET nuevos == {encontrados[k] : k \in 1..Len(encontrados)}
    IN  [c \in DOMAIN counter \cup nuevos |->
            (IF c \in DOMAIN counter THEN counter[c] ELSE 0)
            + ocurrencias(encontrados, c)]

----------------------------------------------------------------------------
(* The documents handed to validar_y_limpiar *)

\* " Sí#a#!"
T_HOLA == <<32, 83, 237, 35, 97, 35, 33>>

\* " "
T_ESPACIO == <<32>>

\* "OTRO:"
T_OTRO == <<79, 84, 82, 79, 58>>

\* "Speaker"
T_SPEAKER == <<83, 112, 101, 97, 107, 101, 114>>

\* "speaKer", its K the Kelvin sign U+212A, whose lowercase is "k"
T_SPEAKER_KELVIN == <<115, 112, 101, 97, 8490, 101, 114>>

\* "USUARIO:"
T_USUARIO == <<85, 83, 85, 65, 82, 73, 79, 58>>

\* "xXxx"
T_XXX == <<120, 88, 120, 120>>

\* "1:23"
T_HORA == <<49, 58, 50, 51>>

\* "1:23" written with the Arabic-Indic digits U+0661, U+0662, U+0663
T_HORA_ARABE == <<1633, 58, 1634, 1635>>

\* "1"
T_UNO == <<49>>

\* "ARIAL", "Calibri"
F_ARIAL == <<65, 82, 73, 65, 76>>

F_CALIBRI == <<67, 97, 108, 105, 98, 114, 105>>

Textos ==
    {<<>>, T_ESPACIO, ENTREVISTADOR, ENTREVISTADORA, ENTREVISTADO, ENTREVISTADA,
     T_OTRO, T_HOLA, T_SPEAKER, T_SPEAKER_KELVIN, T_USUARIO, T_XXX, T_HORA,
     T_HORA_ARABE, T_UNO}

Fuentes == {None, Some(<<>>), Some(F_ARIAL), Some(F_CALIBRI)}

Tamanos == {None, Some(0), Some(12), Some(10)}

Run(text, bold, font_name, font_size) ==
    [text |-> text, bold |-> bold, font_name |-> font_name,
     font_size |-> font_size]

\* The runs of the paragraphs that vary the text and the bold flag: every
\* text with no style set; labels, content and white space bold and not
\* bold; and content in a wrong font and size.
RunsTexto ==
    {Run(t, "None", None, None) : t \in Textos}
    \cup {Run(t, b, None, None) :
            t \in {ENTREVISTADOR, ENTREVISTADORA, ENTREVISTADO, T_HOLA,
                   T_ESPACIO},
            b \in {"True", "False"}}
    \cup {Run(T_HOLA, "None", Some(F_CALIBRI), Some(10))}

\* The runs of the paragraphs that vary the font and the size: content in
\* every font and size, a timestamp and white space in a wrong font and size,
\* and a label with no style set.
RunsFuente ==
    {Run(T_HOLA, "None", f, s) : f \in Fuentes, s \in Tamanos}
    \cup {Run(t, "None", Some(F_CALIBRI), Some(10)) : t \in {T_HORA, T_ESPACIO}}
    \cup {Run(ENTREVISTADOR, "None", None, None)}

\* The paragraphs of at most MaxRuns runs, all of one of the two kinds.
Parrafos ==
    UNION {[1..n -> RunsTexto] \cup [1..n -> RunsFuente] : n \in 0..MaxRuns}

\* The paragraphs of the documents of several paragraphs.
ParrafosChicos ==
    {<<>>}
    \cup {<<r>> : r \in
            {Run(T_ESPACIO, "None", None, None),
             Run(T_HORA, "None", Some(F_CALIBRI), Some(10)),
             Run(T_HORA_ARABE, "None", None, None),
             Run(T_HOLA, "None", Some(F_CALIBRI), Some(10)),
             Run(T_USUARIO, "None", None, None),
             Run(ENTREVISTADOR, "False", None, None),
             Run(ENTREVISTADO, "None", None, None)}}

\* One paragraph of any kind, or up to MaxParas of the small paragraphs.
Documentos ==
    {<<>>}
    \cup {<<p>> : p \in Parrafos}
    \cup UNION {[1..n -> ParrafosChicos] : n \in 2..MaxParas}

----------------------------------------------------------------------------
(* validar_y_limpiar as a state machine *)

Init ==
    /\ doc \in Documentos
    /\ original = doc
    /\ i = 0
    /\ j = 0
    /\ pc = "validar"
    /\ errores = <<>>
    /\ especiales_count = 0
    /\ char_counter = <<>>
    /\ escritos = {}
    /\ lineas = <<>>
    /\ resumen = <<>>

\* The paragraph of the current iteration and its stripped text.
para == doc[i + 1]

texto_de(runs) == strip(para_text(runs))

\* if not texto: continue
ParrafoVacio ==
    /\ pc = "validar"
    /\ i < Len(doc)
    /\ texto_de(para) = <<>>
    /\ i' = i + 1
    /\ UNCHANGED <<doc, original, j, pc, errores, especiales_count,
                   char_counter, escritos, lineas, resumen>>

\* if re.fullmatch(r"\d{1,2}:\d{2}", texto): continue
ParrafoTimestamp ==
    /\ pc = "validar"
    /\ i < Len(doc)
    /\ texto_de(para) # <<>>
    /\ es_timestamp(texto_de(para))
    /\ i' = i + 1
    /\ UNCHANGED <<doc, original, j, pc, errores, especiales_count,
                   char_counter, escritos, lineas, resumen>>

\* The label, bold, font and size checks of one paragraph.
ValidarParrafo ==
    /\ pc = "validar"
    /\ i < Len(doc)
    /\ texto_de(para) # <<>>
    /\ ~es_timestamp(texto_de(para))
    /\ errores' = errores \o errores_palabras(i, texto_de(para))
                          \o errores_etiqueta(i, texto_de(para), para)
                          \o errores_fuente(i, para)
    /\ pc' = "limpiar"
    /\ j' = 0
    /\ UNCHANGED <<doc, original, i, especiales_count, char_counter,
                   escritos, lineas, resumen>>

\* One iteration of the cleaning loop on a run with characters to remove.
LimpiarRun ==
    /\ pc = "limpiar"
    /\ j < Len(para)
    /\ LET run == para[j + 1]
           encontrados == findall(run.text)
       IN  /\ run.text # <<>>
           /\ encontrados # <<>>
           /\ especiales_count' = especiales_count + Len(encontrados)
           /\ char_counter' = counter_update(char_counter, encontrados)
           /\ doc' = [doc EXCEPT ![i + 1][j + 1].text = sub(run.text)]
           /\ escritos' = escritos \cup {<<i + 1, j + 1>>}
    /\ j' = j + 1
    /\ UNCHANGED <<original, i, pc, errores, lineas, resumen>>

\* One iteration of the cleaning loop on a run with nothing to remove.
RunSinCambios ==
    /\ pc = "limpiar"
    /\ j < Len(para)
    /\ LET run == para[j + 1]
       IN  run.text = <<>> \/ findall(run.text) = <<>>
    /\ j' = j + 1
    /\ UNCHANGED <<doc, original, i, pc, errores, especiales_count,
                   char_counter, escritos, lineas, resumen>>

\* The cleaning loop is over: the next paragraph.
FinParrafo ==
    /\ pc = "limpiar"
    /\ j = Len(para)
    /\ i' = i + 1
    /\ j' = 0
    /\ pc' = "validar"
    /\ UNCHANGED <<doc, original, errores, especiales_count, char_counter,
                   escritos, lineas, resumen>>

\* The number of findings of category tipo among the first n findings.
cuenta_tipo(n, tipo) == Cardinality({k \in 1..n : errores[k][2] = tipo})

\* The paragraph loop is over: the document is saved and the report is
\* written, one line per finding, and the findings are counted by category.
Reportar ==
    /\ pc = "validar"
    /\ i = Len(doc)
    /\ lineas' = errores
    /\ resumen' = [tipo \in {errores[k][2] : k \in 1..Len(errores)} |->
                      cuenta_tipo(Len(errores), tipo)]
    /\ pc' = "fin"
    /\ UNCHANGED <<doc, original, i, j, errores, especiales_count,
                   char_counter, escritos>>

Next ==
    \/ ParrafoVacio
    \/ ParrafoTimestamp
    \/ ValidarParrafo
    \/ LimpiarRun
    \/ RunSinCambios
    \/ FinParrafo
    \/ Reportar

Spec == Init /\ [][Next]_vars

----------------------------------------------------------------------------
(* Vocabulary of the properties *)

\* The stripped text paragraph k had when the pass began.
TextoOriginal(k) == strip(para_text(original[k]))

\* Paragraph k is one the pass skips as empty.
EsVacio(k) == TextoOriginal(k) = <<>>

\* The stripped text of paragraph k is one or two digits, a colon and two
\* digits.
EsMarcaDeTiempo(k) ==
    LET t == TextoOriginal(k)
    IN  \E n \in {1, 2} :
            /\ Len(t) = n + 3
            /\ \A m \in 1..n : isdigit(t[m])
            /\ t[n + 1] = 58
            /\ isdigit(t[n + 2]) /\ isdigit(t[n + 3])

\* The checks of paragraph k are over (or it was skipped).
Procesado(k) == k <= i \/ (k = i + 1 /\ pc = "limpiar")

\* Paragraph k went through the label, bold, font and size checks.
Validado(k) == Procesado(k) /\ ~EsVacio(k) /\ ~EsMarcaDeTiempo(k)

\* The findings of line k, in the order of the list.
ErroresDe(k) == SelectSeq(errores, LAMBDA e : e[1] = k)

\* Those of the categories tipos.
ErroresDeTipo(k, tipos) == SelectSeq(ErroresDe(k), LAMBDA e : e[2] \in tipos)

\* The categories of a sequence of findings.
Tipos(es) == [m \in 1..Len(es) |-> es[m][2]]

\* The positions <<paragraph, run>> of the document.
Posiciones ==
    UNION {{<<k, r>> : r \in 1..Len(original[k])} : k \in 1..Len(original)}

RECURSIVE Suma(_, _)
\* The sum of f over the finite set S.
Suma(f, S) ==
    IF S = {} THEN 0
    ELSE LET x == CHOOSE x \in S : TRUE IN f[x] + Suma(f, S \ {x})

\* The characters of a text that lie outside the allowed set.
Prohibidos(text) == {c \in {text[m] : m \in 1..Len(text)} : REGEX_PERMITIDOS(c)}

----------------------------------------------------------------------------
(* C1 *)

\* C1: once validar_y_limpiar has finished, the text of every paragraph of
\* the document holds no character outside the allowed set.
C1_TodoParrafoLimpio ==
    pc = "fin" =>
        \A k \in 1..Len(doc) : Prohibidos(para_text(doc[k])) = {}

----------------------------------------------------------------------------
(* C2 *)

\* The characters outside the allowed set in the paragraphs that are not
\* timestamps nor empty, as a sequence per paragraph.
FueraDeMarcas ==
    [k \in 1..Len(original) |->
        IF EsMarcaDeTiempo(k) \/ EsVacio(k) THEN <<>>
        ELSE findall(para_text(original[k]))]

\* C2: a paragraph whose stripped text is one or two digits, a colon and two
\* digits gets no finding on its line, keeps the text of every run, has no
\* run written, and adds nothing to the removed-character total nor to the
\* histogram: at the end both count the other paragraphs only.
C2_MarcaDeTiempoIntacta ==
    /\ \A k \in 1..Len(original) :
          EsMarcaDeTiempo(k) =>
              /\ ErroresDe(k) = <<>>
              /\ doc[k] = original[k]
              /\ \A r \in 1..Len(original[k]) : <<k, r>> \notin escritos
    /\ pc = "fin" =>
          /\ especiales_count =
                Suma([k \in 1..Len(original) |-> Len(FueraDeMarcas[k])],
                     1..Len(original))
          /\ \A c \in UNION {Prohibidos(para_text(original[k])) :
                               k \in 1..Len(original)} :
                (IF c \in DOMAIN char_counter THEN char_counter[c] ELSE 0)
                = Suma([k \in 1..Len(original) |->
                           ocurrencias(FueraDeMarcas[k], c)],
                       1..Len(original))

\* A finished pass over a document with a timestamp paragraph that holds
\* characters outside the allowed set, a timestamp paragraph in a wrong font,
\* and findings and removals from other paragraphs.
C2_Testigo ==
    /\ pc = "fin"
    /\ \E k \in 1..Len(original) :
          EsMarcaDeTiempo(k) /\ Prohibidos(para_text(original[k])) # {}
    /\ \E k \in 1..Len(original) :
          /\ EsMarcaDeTiempo(k)
          /\ \E r \in 1..Len(original[k]) :
                original[k][r].font_name = Some(F_CALIBRI)
    /\ errores # <<>>
    /\ especiales_count > 0

----------------------------------------------------------------------------
(* C3 *)

\* Paragraph k went through the checks and holds a run in Calibri, 10pt.
ConCalibri10(k) ==
    /\ Validado(k)
    /\ \E r \in 1..Len(original[k]) :
          /\ original[k][r].font_name = Some(F_CALIBRI)
          /\ original[k][r].font_size = Some(10)

\* C3 (as stated): a checked paragraph with a run in Calibri, 10pt gets
\* exactly one "Fuente incorrecta" finding and exactly one "Tamaño
\* incorrecto" finding.
C3_FuenteYTamano ==
    \A k \in 1..Len(original) :
        ConCalibri10(k) =>
            /\ Len(ErroresDeTipo(k, {"Fuente incorrecta"})) = 1
            /\ Len(ErroresDeTipo(k, {"Tamaño incorrecto"})) = 1

\* C3 (amended): a checked paragraph with a run in Calibri, 10pt gets exactly
\* one finding in all over the categories "Fuente incorrecta" and "Tamaño
\* incorrecto".
C3_UnSoloHallazgo ==
    \A k \in 1..Len(original) :
        ConCalibri10(k) =>
            Len(ErroresDeTipo(k, {"Fuente incorrecta", "Tamaño incorrecto"})) = 1

\* A checked paragraph whose only styled run is in Calibri, 10pt, with its
\* "Fuente incorrecta" finding and no "Tamaño incorrecto" finding.
C3_Testigo ==
    \E k \in 1..Len(original) :
        /\ ConCalibri10(k)
        /\ \A r \in 1..Len(original[k]) :
              original[k][r].font_name \in {None, Some(F_CALIBRI)}
        /\ Tipos(ErroresDeTipo(k, {"Fuente incorrecta", "Tamaño incorrecto"}))
           = <<"Fuente incorrecta">>

----------------------------------------------------------------------------
(* C4 *)

\* C4: a paragraph gets a "Formato incorrecto" finding if and only if its
\* stripped text is exactly one of the four valid labels, and then it gets
\* exactly one.
C4_EtiquetaSola ==
    \A k \in 1..Len(original) :
        Procesado(k) =>
            Len(ErroresDeTipo(k, {"Formato incorrecto"}))
            = IF TextoOriginal(k) \in
                    {ENTREVISTADOR, ENTREVISTADORA, ENTREVISTADO, ENTREVISTADA}
              THEN 1 ELSE 0

\* A paragraph whose runs are white space and the lone label ENTREVISTADA:,
\* with its "Formato incorrecto" finding.
C4_Testigo ==
    \E k \in 1..Len(original) :
        /\ Procesado(k)
        /\ Len(original[k]) = 2
        /\ TextoOriginal(k) = ENTREVISTADA
        /\ Len(ErroresDeTipo(k, {"Formato incorrecto"})) = 1

----------------------------------------------------------------------------
(* C5 *)

\* The stripped text of paragraph k starts with an interviewer label.
EmpiezaEntrevistador(k) ==
    \/ startswith(TextoOriginal(k), ENTREVISTADOR)
    \/ startswith(TextoOriginal(k), ENTREVISTADORA)

\* The bold findings of line k, in order.
Negritas(k) ==
    Tipos(ErroresDeTipo(k, {"Encabezado sin negrita", "Formato en negrita"}))

\* C5: a paragraph that starts with ENTREVISTADOR: or ENTREVISTADORA: and
\* has no bold run gets exactly one "Encabezado sin negrita" finding followed
\* by exactly one "Formato en negrita" finding; a paragraph with another
\* label, valid or not, or with none, gets neither.
C5_EncabezadoEnNegrita ==
    \A k \in 1..Len(original) :
        Procesado(k) =>
            /\ ( /\ EmpiezaEntrevistador(k)
                 /\ \A r \in 1..Len(original[k]) : original[k][r].bold # "True" )
               => Negritas(k) = <<"Encabezado sin negrita", "Formato en negrita">>
            /\ ~EmpiezaEntrevistador(k) => Negritas(k) = <<>>

\* An interviewer line of two runs, one with the bold flag False and one with
\* the flag unknown, with its two findings.
C5_Testigo ==
    \E k \in 1..Len(original) :
        /\ Procesado(k)
        /\ EmpiezaEntrevistador(k)
        /\ Len(original[k]) = 2
        /\ original[k][1].bold = "False"
        /\ original[k][2].bold = "None"
        /\ Negritas(k) = <<"Encabezado sin negrita", "Formato en negrita">>

----------------------------------------------------------------------------
(* C6 *)

\* The forbidden words the stripped text of paragraph k holds, compared
\* without case, in the order speaker, usuario, xxx.
PalabrasDe(k) ==
    LET t == lower(TextoOriginal(k))
    IN  (IF contiene(t, SPEAKER) THEN <<"speaker">> ELSE <<>>)
        \o (IF contiene(t, USUARIO) THEN <<"usuario">> ELSE <<>>)
        \o (IF contiene(t, XXX) THEN <<"xxx">> ELSE <<>>)

\* The prefix of capital letters and a colon of paragraph k exists and is
\* not a valid label.
PrefijoInvalido(k) ==
    LET m == match_etiqueta(TextoOriginal(k))
    IN  m # None /\ m[1] \notin
            {ENTREVISTADOR, ENTREVISTADORA, ENTREVISTADO, ENTREVISTADA}

\* C6: the findings of a checked paragraph begin with one "Etiqueta
\* inválida" finding per forbidden word of its text, in the order speaker,
\* usuario, xxx; every later finding comes from the other checks, and among
\* them there is an "Etiqueta inválida" finding (one, naming the prefix) only
\* when the prefix of capital letters and a colon is not a valid label.
C6_PalabrasProhibidas ==
    \A k \in 1..Len(original) :
        Validado(k) =>
            LET es == ErroresDe(k)
                ps == PalabrasDe(k)
                n  == Len(ps)
                resto == SubSeq(es, n + 1, Len(es))
                invalidas == SelectSeq(resto,
                                 LAMBDA e : e[2] = "Etiqueta inválida")
            IN  /\ Len(es) >= n
                /\ \A m \in 1..n :
                      es[m][2] = "Etiqueta inválida" /\ es[m][3][1] = ps[m]
                /\ \A m \in 1..Len(resto) :
                      resto[m][3][1] \notin {"speaker", "usuario", "xxx"}
                /\ Len(invalidas) = IF PrefijoInvalido(k) THEN 1 ELSE 0
                /\ \A m \in 1..Len(invalidas) : invalidas[m][3][1] = "etiqueta"

\* A checked paragraph "USUARIO:xXxx": two forbidden words, one of them
\* twice, and an invalid label, with its three findings.
C6_Testigo ==
    \E k \in 1..Len(original) :
        /\ Validado(k)
        /\ TextoOriginal(k) = T_USUARIO \o T_XXX
        /\ PalabrasDe(k) = <<"usuario", "xxx">>
        /\ Len(ErroresDeTipo(k, {"Etiqueta inválida"})) = 3

----------------------------------------------------------------------------
(* C7 *)

\* C7: at the end the document has the same paragraphs and runs, the text of
\* each run is its first text without the characters outside the allowed set,
\* in the same order, its style is unchanged, and a run that held no such
\* character is not written.
C7_SoloSeBorra ==
    pc = "fin" =>
        /\ Len(doc) = Len(original)
        /\ \A k \in 1..Len(original) :
              /\ Len(doc[k]) = Len(original[k])
              /\ \A r \in 1..Len(original[k]) :
                    /\ doc[k][r].text =
                          SelectSeq(original[k][r].text,
                                    LAMBDA c : ~REGEX_PERMITIDOS(c))
                    /\ doc[k][r].bold = original[k][r].bold
                    /\ doc[k][r].font_name = original[k][r].font_name
                    /\ doc[k][r].font_size = original[k][r].font_size
                    /\ Prohibidos(original[k][r].text) = {}
                       => <<k, r>> \notin escritos

----------------------------------------------------------------------------
(* C8 *)

\* C8: every finding carries a line number between 1 and the number of
\* paragraphs, the line numbers of the list never decrease, and a step of
\* the pass only appends findings, each with the 1-based position, counted
\* over all the paragraphs, of the paragraph the step examines.
C8_LineasEnOrden ==
    /\ [](\A m \in 1..Len(errores) :
              /\ errores[m][1] \in 1..Len(original)
              /\ m > 1 => errores[m - 1][1] <= errores[m][1])
    /\ [][ /\ Len(errores') >= Len(errores)
           /\ SubSeq(errores', 1, Len(errores)) = errores
           /\ \A m \in (Len(errores) + 1)..Len(errores') :
                 errores'[m][1] = i + 1 ]_vars

\* A finished pass over a document of three paragraphs whose second is a
\* timestamp, with findings on line 1 followed by findings on line 3.
C8_Testigo ==
    /\ pc = "fin"
    /\ Len(original) = 3
    /\ EsMarcaDeTiempo(2)
    /\ \E m \in 1..Len(errores) : errores[m][1] = 1
    /\ \E m \in 1..Len(errores) : errores[m][1] = 3

----------------------------------------------------------------------------
(* C9 *)

\* The font name of the run is set and is not Arial, compared without case.
FuenteAjena(run) ==
    /\ run.font_name \notin {None, Some(<<>>)}
    /\ lower(run.font_name[1]) # <<97, 114, 105, 97, 108>>

\* The size of the run is set and is not 12pt.
TamanoAjeno(run) == run.font_size \notin {None, Some(0), Some(12)}

\* C9: a checked paragraph gets no font or size finding when no run has a
\* font that is set and not Arial or a size that is set and not 12pt;
\* otherwise it gets exactly one, decided by the first such run: "Fuente
\* incorrecta", naming the font, when the font of that run offends, and
\* "Tamaño incorrecto", naming the size, when only its size does.
C9_PrimerRunDecide ==
    \A k \in 1..Len(original) :
        Validado(k) =>
            LET runs == original[k]
                malos == {r \in 1..Len(runs) :
                            FuenteAjena(runs[r]) \/ TamanoAjeno(runs[r])}
                fs == ErroresDeTipo(k, {"Fuente incorrecta", "Tamaño incorrecto"})
            IN  IF malos = {} THEN fs = <<>>
                ELSE LET r == CHOOSE r \in malos : \A q \in malos : r <= q
                     IN  /\ Len(fs) = 1
                         /\ IF FuenteAjena(runs[r])
                            THEN /\ fs[1][2] = "Fuente incorrecta"
                                 /\ fs[1][3][2] = runs[r].font_name[1]
                            ELSE /\ fs[1][2] = "Tamaño incorrecto"
                                 /\ fs[1][3][2] = runs[r].font_size

\* A checked paragraph whose first run is in ARIAL, 10pt and whose second run
\* is in Calibri, with its single finding, "Tamaño incorrecto".
C9_Testigo ==
    \E k \in 1..Len(original) :
        /\ Validado(k)
        /\ Len(original[k]) = 2
        /\ original[k][1].font_name = Some(F_ARIAL)
        /\ original[k][1].font_size = Some(10)
        /\ original[k][2].font_name = Some(F_CALIBRI)
        /\ Tipos(ErroresDeTipo(k, {"Fuente incorrecta", "Tamaño incorrecto"}))
           = <<"Tamaño incorrecto">>

----------------------------------------------------------------------------
(* C10 *)

\* The number of occurrences of c deleted so far from the run at position p
\* of the document.
Borrados(c) ==
    [p \in Posiciones |->
        ocurrencias(original[p[1]][p[2]].text, c)
        - ocurrencias(doc[p[1]][p[2]].text, c)]

\* The characters of the texts the document had when the pass began.
Caracteres ==
    UNION {{original[p[1]][p[2]].text[m] :
               m \in 1..Len(original[p[1]][p[2]].text)} : p \in Posiciones}

\* C10: between the steps of the pass and at its end, the removed-character
\* total is the sum of the counts of the histogram and the number of
\* characters deleted so far from the run texts; the count of each character
\* is the number of its occurrences deleted from the runs; and the histogram
\* has an entry only for characters outside the allowed set.
C10_TotalEHistograma ==
    /\ especiales_count = Suma(char_counter, DOMAIN char_counter)
    /\ especiales_count =
          Suma([p \in Posiciones |->
                   Len(original[p[1]][p[2]].text) - Len(doc[p[1]][p[2]].text)],
               Posiciones)
    /\ \A c \in DOMAIN char_counter :
          REGEX_PERMITIDOS(c) /\ char_counter[c] > 0
    /\ \A c \in Caracteres \cup DOMAIN char_counter :
          (IF c \in DOMAIN char_counter THEN char_counter[c] ELSE 0)
          = Suma(Borrados(c), Posiciones)

\* The pass is inside the cleaning loop of a paragraph of two runs, the first
\* cleaned of two "#" and one "!" and the second not yet cleaned.
C10_Testigo ==
    /\ pc = "limpiar"
    /\ j = 1
    /\ Len(para) = 2
    /\ Prohibidos(para[2].text) # {}
    /\ DOMAIN char_counter = {33, 35}
    /\ char_counter[35] = 2
    /\ char_counter[33] = 1
    /\ especiales_count = 3

====
